---- MODULE Spec2Model ----
(***************************************************************************)
(* Receipt processor (src/main.go): an HTTP service with two handlers,     *)
(* processReceiptHandler (POST /receipts/process) and getPointsHandler     *)
(* (GET /receipts/{id}/points), sharing the package-level map `receipts`,  *)
(* and the pure scoring function calculatePoints.                          *)
(*                                                                         *)
(* Two specifications:                                                     *)
(*   SpecCalc  calculatePoints run rule by rule on receipts drawn from     *)
(*             bounded sets;                                               *)
(*   Spec      the server: net/http runs every request in its own          *)
(*             goroutine, so handlers interleave at their accesses to the  *)
(*             shared map, which main.go guards with no lock.              *)
(*                                                                         *)
(* Money is float64 in the source.  The model keeps amounts in whole cents *)
(* (total = cents/100) and computes each float expression exactly:         *)
(*   - total*4 is an exact scaling by a power of two, and cents/100 is     *)
(*     exactly representable whenever cents is a multiple of 25, so        *)
(*     int(total*4) = (4*cents) \div 100;                                  *)
(*   - price*0.2+0.5 is at least 1/500 away from an integer except at the  *)
(*     ties price = 5k+2.5: there price is exact, the float 0.2 lies just  *)
(*     above 1/5 and rounding is monotone, so the sum is >= k+1 and        *)
(*     int(price*0.2+0.5) = (cents+250) \div 500.                          *)
(***************************************************************************)
EXTENDS Integers, Sequences, FiniteSets, TLC

VARIABLES
    \* ---- calculatePoints, run step by step (SpecCalc) ----
    receipt,    \* the Receipt passed to calculatePoints
    cpc,        \* position inside calculatePoints
    points,     \* the local accumulator `points`
    contrib,    \* history: what each rule executed so far added to points
    \* ---- the server (Spec) ----
    receipts,   \* the package-level map id -> points
    handlers,   \* the handler goroutines inside a map access: a bag of
                \* [pc, path, id, points, raced] (position, the request's path,
                \* locals `id` and `points`, whether the access overlapped a
                \* conflicting one)
    crashed,    \* the runtime threw a fatal error (concurrent map access)
    generated,  \* identifiers uuid.New() has produced so far
    returned,   \* history: id -> points for every Submit answered 200
    last        \* history: the most recent request answered, and its answer

cvars == <<receipt, cpc, points, contrib>>
svars == <<receipts, handlers, crashed, generated, returned, last>>
vars == <<receipt, cpc, points, contrib,
          receipts, handlers, crashed, generated, returned, last>>

----------------------------------------------------------------------------
\* Bounds of the model.

\* largest total, in cents, a receipt of SpecCalc carries
MaxTotal == 210
\* largest item price, in cents
MaxPrice == 760
\* longest item list
MaxItems == 3
\* longest item description
MaxDescLen == 3
\* number of handler goroutines inside a map access at once
NumHandlers == 2
\* number of identifiers uuid.New() hands out before the model stops submitting
MaxIds == 2

----------------------------------------------------------------------------
\* Strings are sequences of characters; retailer characters are code points.

DigitChars == <<"0", "1", "2", "3", "4", "5", "6", "7", "8", "9">>

IsDigit(c) == \E i \in 1..10 : DigitChars[i] = c

DigitVal(c) == (CHOOSE i \in 1..10 : DigitChars[i] = c) - 1

\* fmt: the digits of one %d, read greedily from position i
RECURSIVE ScanDigits(_, _, _, _)
ScanDigits(s, i, acc, n) ==
    IF i <= Len(s) /\ IsDigit(s[i])
    THEN ScanDigits(s, i + 1, acc * 10 + DigitVal(s[i]), n + 1)
    ELSE [val |-> acc, next |-> i, n |-> n]

\* fmt: one %d verb: an optional sign, then at least one digit
ScanInt(s, i) ==
    LET signed == i <= Len(s) /\ s[i] \in {"+", "-"}
        neg    == i <= Len(s) /\ s[i] = "-"
        d      == ScanDigits(s, IF signed THEN i + 1 ELSE i, 0, 0)
    IN  [ok |-> d.n > 0, val |-> IF neg THEN 0 - d.val ELSE d.val, next |-> d.next]

\* fmt.Sscanf with a format of n %d verbs separated by the literal sep:
\* scanning stops at the first verb or literal that does not match.
RECURSIVE ScanFields(_, _, _, _, _, _)
ScanFields(s, i, k, n, sep, acc) ==
    LET r == ScanInt(s, i)
    IN  IF ~r.ok THEN acc
        ELSE IF k = n THEN Append(acc, r.val)
        ELSE IF r.next <= Len(s) /\ s[r.next] = sep
             THEN ScanFields(s, r.next + 1, k + 1, n, sep, Append(acc, r.val))
             ELSE Append(acc, r.val)

\* the n integer variables after Sscanf: those not scanned keep their zero value
Sscanf(s, n, sep) ==
    LET got == ScanFields(s, 1, 1, n, sep, <<>>)
    IN  [k \in 1..n |-> IF k <= Len(got) THEN got[k] ELSE 0]

----------------------------------------------------------------------------
\* calculatePoints, rule by rule.

IsAlnum(c) ==
    \/ (c >= 97 /\ c <= 122)
    \/ (c >= 65 /\ c <= 90)
    \/ (c >= 48 /\ c <= 57)

\* 1. one point per alphanumeric character of the retailer name
Rule1(r) == Cardinality({i \in 1..Len(r.retailer) : IsAlnum(r.retailer[i])})

\* 2. receipt.Total == float64(int(receipt.Total))
Rule2(r) == IF r.total = (r.total \div 100) * 100 THEN 50 ELSE 0

\* 3. int(receipt.Total*4)%4 == 0
Rule3Excl(r) ==
    IF r.total = (r.total \div 100) * 100 THEN 0
    ELSE IF ((r.total * 4) \div 100) % 4 = 0 THEN 25 ELSE 0

Rule3(r) == IF ((r.total * 4) \div 100) % 4 = 0 THEN 25 ELSE 0

\* 4. (len(receipt.Items) / 2) * 5
Rule4(r) == (Len(r.items) \div 2) * 5

\* int(item.Price*0.2 + 0.5)
ItemPointsTrunc(price) == price \div 500

ItemPoints(price) == (price + 250) \div 500

\* 5. the loop over the items, in order
RECURSIVE Rule5Loop(_, _, _)
Rule5Loop(items, i, acc) ==
    IF i > Len(items) THEN acc
    ELSE Rule5Loop(items, i + 1,
            IF Len(items[i].description) % 3 = 0
            THEN acc + ItemPoints(items[i].price)
            ELSE acc)

Rule5(r) == Rule5Loop(r.items, 1, 0)

\* 6. Sscanf(PurchaseDate, "%d-%d-%d"); day%2 != 0
Rule6(r) == IF Sscanf(r.purchaseDate, 3, "-")[3] % 2 # 0 THEN 6 ELSE 0

\* 7. Sscanf(PurchaseTime, "%d:%d"); hour >= 14 && hour < 16
Rule7(r) ==
    LET hour == Sscanf(r.purchaseTime, 2, ":")[1]
    IN  IF hour >= 14 /\ hour < 16 THEN 10 ELSE 0

calculatePoints(r) ==
    Rule1(r) + Rule2(r) + Rule3(r) + Rule4(r) + Rule5(r) + Rule6(r) + Rule7(r)

----------------------------------------------------------------------------
\* Receipts the model feeds to calculatePoints.

\* "", "Ta", "M&M 7"
Retailers == {<<>>, <<84, 97>>, <<77, 38, 77, 32, 55>>}

\* "2022-01-01", "2022-03-20", "2022-01" (no day), "" (nothing to parse)
Dates == { <<"2","0","2","2","-","0","1","-","0","1">>,
           <<"2","0","2","2","-","0","3","-","2","0">>,
           <<"2","0","2","2","-","0","1">>,
           <<>> }

\* "14:33", "16:00", "13:59", "x" (unparseable)
Times == { <<"1","4",":","3","3">>,
           <<"1","6",":","0","0">>,
           <<"1","3",":","5","9">>,
           <<"x">> }

Descriptions == {[i \in 1..n |-> "a"] : n \in 0..MaxDescLen}

\* prices used where several items are combined: around the ties and far from them
PriceSamples == {p \in {0, 250, 300, 750} : p <= MaxPrice}

Item(d, p) == [description |-> d, price |-> p]

\* items combined into longer lists: qualifying and not, around the ties and far from them
SampleItems ==
    {Item(d, p) : d \in {<<>>, <<"a">>, <<"a", "a", "a">>} \cap Descriptions,
                  p \in PriceSamples}

\* every single item of every price, and all lists of up to MaxItems sample items
ItemLists ==
    {<<Item(d, p)>> : d \in Descriptions, p \in 0..MaxPrice}
    \cup UNION {[1..n -> SampleItems] : n \in 0..MaxItems}

Receipt(rt, t, d, tm, its) ==
    [retailer |-> rt, total |-> t, purchaseDate |-> d, purchaseTime |-> tm, items |-> its]

DateA == <<"2","0","2","2","-","0","1","-","0","1">>
DateB == <<"2","0","2","2","-","0","3","-","2","0">>
TimeA == <<"1","4",":","3","3">>
TimeB == <<"1","6",":","0","0">>

\* every total with a few retailers, dates and times; every item list with one total
CalcReceipts ==
    {Receipt(rt, t, d, tm, <<>>) :
        rt \in Retailers, t \in 0..MaxTotal, d \in Dates, tm \in Times}
    \cup {Receipt(<<84, 97>>, 135, DateA, TimeB, its) : its \in ItemLists}

\* the two receipts the server model is sent: 2+50+25+6+10 = 93 and 0+25+1 = 26
ReceiptA == Receipt(<<84, 97>>, 100, DateA, TimeA, <<>>)
ReceiptB == Receipt(<<>>, 10, DateB, TimeB, <<Item(<<"a", "a", "a">>, 250)>>)

----------------------------------------------------------------------------
\* The server's data.

IdNames == <<"id1", "id2", "id3", "id4", "id5", "id6">>

\* the identifiers uuid.New() can return in the model
Ids == {IdNames[i] : i \in 1..MaxIds}

\* an identifier no Submit ever returned
UnknownId == "unknown"

Methods == {"GET", "POST", "PUT"}

\* request bodies: one that json cannot decode into a Receipt, and two receipts
BodyKinds == {"malformed", "A", "B"}

EmptyMap == [i \in {} |-> 0]

Put(m, k, v) == [i \in DOMAIN m \cup {k} |-> IF i = k THEN v ELSE m[i]]

Restrict(m, S) == [i \in DOMAIN m \cap S |-> m[i]]

NoLast ==
    [handler |-> "none", method |-> "", path |-> <<>>, body |-> "", status |-> 0,
     msg |-> "", id |-> "", points |-> 0, inStore |-> FALSE]

----------------------------------------------------------------------------
\* calculatePoints as a process: points := 0, then the seven rules in order.

CalcStep(from, to, add) ==
    /\ cpc = from
    /\ points' = points + add
    /\ contrib' = Append(contrib, add)
    /\ cpc' = to
    /\ UNCHANGED <<receipt, svars>>

Rule1Step == CalcStep("rule1", "rule2", Rule1(receipt))
Rule2Step == CalcStep("rule2", "rule3", Rule2(receipt))
Rule3Step == CalcStep("rule3", "rule4", Rule3(receipt))
Rule4Step == CalcStep("rule4", "rule5", Rule4(receipt))
Rule5Step == CalcStep("rule5", "rule6", Rule5(receipt))
Rule6Step == CalcStep("rule6", "rule7", Rule6(receipt))
Rule7Step == CalcStep("rule7", "return", Rule7(receipt))

ReturnStep ==
    /\ cpc = "return"
    /\ cpc' = "done"
    /\ UNCHANGED <<receipt, points, contrib, svars>>

ServerIdle ==
    /\ receipts = EmptyMap
    /\ handlers = EmptyMap
    /\ crashed = FALSE
    /\ generated = {}
    /\ returned = EmptyMap
    /\ last = NoLast

InitCalc ==
    /\ receipt \in CalcReceipts
    /\ cpc = "rule1"
    /\ points = 0
    /\ contrib = <<>>
    /\ ServerIdle

NextCalc ==
    \/ Rule1Step \/ Rule2Step \/ Rule3Step \/ Rule4Step
    \/ Rule5Step \/ Rule6Step \/ Rule7Step \/ ReturnStep

SpecCalc == InitCalc /\ [][NextCalc]_vars

----------------------------------------------------------------------------
\* The server.  net/http serves each request in its own goroutine.  A handler's
\* local work commutes with everything else, so a handler is one step up to the
\* moment it is inside its map access, and one step from there to its answer
\* (the runtime's mapassign and mapaccess are not atomic, and nothing in
\* main.go locks).  A request refused before the map is one step.

\* main: http.HandleFunc("/receipts/process", ...) and http.HandleFunc("/receipts/", ...).
\* ServeMux gives a path to the longest pattern that matches it.  `parts` is the
\* path after "/receipts/", split at "/".
Route(parts) == IF parts = <<"process">> THEN "process" ELSE "getPoints"

\* json.NewDecoder(r.Body).Decode(&receipt)
Decode(body) ==
    [err |-> body = "malformed",
     receipt |-> IF body = "B" THEN ReceiptB ELSE ReceiptA]

\* what processReceiptHandler does with a request before it touches the map:
\* the status it answers at once, or 0 when it goes on to store the receipt
ProcessCheckAs400(method, body) ==
    IF method # "POST" THEN 400
    ELSE IF Decode(body).err THEN 400
    ELSE 0

ProcessCheck(method, body) ==
    IF method # "POST" THEN 405
    ELSE IF Decode(body).err THEN 400
    ELSE 0

\* len(pathParts) != 2 || pathParts[1] != "points", negated
PathOKLoose(parts) == Len(parts) >= 1

PathOK(parts) == Len(parts) = 2 /\ parts[2] = "points"

\* what getPointsHandler does with a request before it touches the map
GetCheck(method, parts) ==
    IF method # "GET" THEN 405
    ELSE IF ~PathOK(parts) THEN 404
    ELSE 0

ErrorText(handler, status) ==
    IF status = 405 THEN "Invalid method"
    ELSE IF status = 400 THEN "Invalid input"
    ELSE IF handler = "getPoints" THEN "Invalid endpoint"
    ELSE ""

\* uuid.New(): an identifier never handed out before.  Identifiers are opaque, so
\* the model hands them out in the order of IdNames.
NewUUID == {IdNames[i] : i \in {Cardinality(generated) + 1} \cap (1..MaxIds)}

\* The paths clients ask for under /receipts/.  A uuid cannot be guessed: a
\* client names an identifier some Submit has returned to it, or one that no
\* Submit ever returned.
ClientIds == DOMAIN returned \cup {UnknownId}

Paths ==
    {<<"process">>}
    \cup {<<i, "points">> : i \in ClientIds}
    \cup {<<i>> : i \in ClientIds}
    \cup {<<i, "points", "">> : i \in ClientIds}
    \cup {<<i, "score">> : i \in ClientIds}

\* http.Error / json.NewEncoder(w).Encode: the answer the step just taken sent
Answer(handler, method, parts, body, status, msg, id, pts, inStore) ==
    last' = [handler |-> handler, method |-> method, path |-> parts, body |-> body,
             status |-> status, msg |-> msg, id |-> id, points |-> pts,
             inStore |-> inStore]

\* Goroutines are anonymous, so those in flight form a bag: a function from
\* the record of a goroutine to how many goroutines have that record.
Count(B, h) == IF h \in DOMAIN B THEN B[h] ELSE 0

RECURSIVE Size(_)
Size(B) ==
    IF DOMAIN B = {} THEN 0
    ELSE LET h == CHOOSE x \in DOMAIN B : TRUE
         IN  B[h] + Size([x \in DOMAIN B \ {h} |-> B[x]])

Add(B, h) == [x \in DOMAIN B \cup {h} |-> Count(B, x) + IF x = h THEN 1 ELSE 0]

Remove(B, h) == [x \in {y \in DOMAIN B : y # h \/ B[y] > 1} |-> B[x] - IF x = h THEN 1 ELSE 0]

\* every goroutine of B whose access is of one of `kinds` is marked as raced
Mark(B, kinds) ==
    LET f(h) == IF h.pc \in kinds THEN [h EXCEPT !.raced = TRUE] ELSE h
    IN  [x \in {f(h) : h \in DOMAIN B} |->
            IF x.pc \in kinds
            THEN Count(B, x) + Count(B, [x EXCEPT !.raced = FALSE])
            ELSE B[x]]

\* A goroutine enters the map.  A write conflicts with every access under way,
\* a read with the writes under way.  A map read changes nothing in the map, so
\* a write is harmed by other writes only; a read is harmed by any write.
EnterWrite(parts, id, pts) ==
    handlers' = Add(Mark(handlers, {"assigning", "accessing"}),
                    [pc |-> "assigning", path |-> parts, id |-> id, points |-> pts,
                     raced |-> \E h \in DOMAIN handlers : h.pc = "assigning"])

EnterRead(parts, id) ==
    handlers' = Add(handlers,
                    [pc |-> "accessing", path |-> parts, id |-> id, points |-> 0,
                     raced |-> \E h \in DOMAIN handlers : h.pc = "assigning"])

\* processReceiptHandler up to the store: method check, decode, uuid.New(),
\* calculatePoints, and receipts[id] = points begins.
ProcessReceiptHandler ==
    /\ ~crashed
    /\ Size(handlers) < NumHandlers
    /\ \E method \in Methods, body \in BodyKinds :
         LET st == ProcessCheck(method, body)
         IN  IF st # 0
             THEN /\ Answer("process", method, <<"process">>, body, st,
                            ErrorText("process", st), "", 0, FALSE)
                  /\ UNCHANGED <<receipts, handlers, crashed, generated, returned>>
             ELSE \E id \in NewUUID :
                  /\ generated' = generated \cup {id}
                  /\ EnterWrite(<<"process">>, id, calculatePoints(Decode(body).receipt))
                  /\ last' = NoLast
                  /\ UNCHANGED <<receipts, crashed, returned>>
    /\ UNCHANGED cvars

\* The maps receipts[id] = points can leave behind.  With no other write under
\* way the entry is added.  Overlapping another write it is a data race on a
\* multiword structure, which the Go memory model leaves open to corruption:
\* the entry may be added or lost (two inserts taking the same slot), and
\* entries already there may be lost too (two writers growing the table at
\* once).  Every such outcome is allowed: any subset of the entries survives.
mapassign(m, id, pts, race) ==
    {Put(m, id, pts)}
    \cup IF race
         THEN {Restrict(Put(m, id, pts), S) : S \in SUBSET (DOMAIN m \cup {id})}
         ELSE {}

\* the write ends, and the handler answers 200 {"id": id}
MapAssignEnd ==
    /\ ~crashed
    /\ \E h \in DOMAIN handlers :
         /\ h.pc = "assigning"
         /\ receipts' \in mapassign(receipts, h.id, h.points, h.raced)
         /\ returned' = Put(returned, h.id, h.points)
         /\ Answer("process", "POST", h.path, "", 200, "", h.id, 0, FALSE)
         /\ handlers' = Remove(handlers, h)
    /\ UNCHANGED <<cvars, crashed, generated>>

\* getPointsHandler up to the lookup: method check, path split and shape check,
\* and points, found := receipts[id] begins (the handler never reads r.Body, so
\* the request carries none here)
GetPointsHandler ==
    /\ ~crashed
    /\ Size(handlers) < NumHandlers
    /\ \E method \in Methods, parts \in Paths :
         /\ Route(parts) = "getPoints"
         /\ LET st == GetCheck(method, parts)
            IN  IF st # 0
                THEN /\ Answer("getPoints", method, parts, "", st,
                               ErrorText("getPoints", st), "", 0,
                               parts[1] \in DOMAIN receipts)
                     /\ UNCHANGED <<receipts, handlers, crashed, generated, returned>>
                ELSE /\ EnterRead(parts, parts[1])
                     /\ last' = NoLast
                     /\ UNCHANGED <<receipts, crashed, generated, returned>>
    /\ UNCHANGED cvars

\* What points, found := receipts[id] can return.  With no write under way, what
\* the map holds.  Overlapping a write it is a data race: the read may also
\* miss an entry (one being moved while the table grows).
mapaccess(m, id, race) ==
    {[found |-> id \in DOMAIN m, points |-> IF id \in DOMAIN m THEN m[id] ELSE 0]}
    \cup IF race THEN {[found |-> FALSE, points |-> 0]} ELSE {}

\* the read ends, and the handler answers 200 {"points": points} or 404
MapAccessEnd ==
    /\ ~crashed
    /\ \E h \in DOMAIN handlers :
         /\ h.pc = "accessing"
         /\ \E r \in mapaccess(receipts, h.id, h.raced) :
              IF r.found
              THEN Answer("getPoints", "GET", h.path, "", 200, "", h.id,
                          r.points, h.id \in DOMAIN receipts)
              ELSE Answer("getPoints", "GET", h.path, "", 404,
                          "Receipt not found", h.id, 0, h.id \in DOMAIN receipts)
         /\ handlers' = Remove(handlers, h)
    /\ UNCHANGED <<cvars, receipts, crashed, generated, returned>>

\* The runtime notices the concurrent map access and ends the process ("fatal
\* error: concurrent map writes" / "concurrent map read and map write"): every
\* goroutine and the map are gone, and nothing is served any more.
Fatal ==
    /\ ~crashed
    /\ \E h \in DOMAIN handlers : h.raced
    /\ crashed' = TRUE
    /\ receipts' = EmptyMap
    /\ handlers' = EmptyMap
    /\ generated' = {}
    /\ returned' = EmptyMap
    /\ last' = NoLast
    /\ UNCHANGED cvars

Init ==
    /\ receipt = ReceiptA
    /\ cpc = "done"
    /\ points = 0
    /\ contrib = <<>>
    /\ ServerIdle

Next ==
    \/ ProcessReceiptHandler
    \/ MapAssignEnd
    \/ GetPointsHandler
    \/ MapAccessEnd
    \/ Fatal

Spec == Init /\ [][Next]_vars

----------------------------------------------------------------------------
\* Properties of calculatePoints (checked under SpecCalc).

\* the steps of calculatePoints add up to the function the handlers call
CalcAgrees == cpc = "done" => points = calculatePoints(receipt)

\* C8: rule 3 adds 25 exactly when the total is a multiple of 0.25, that is when
\* its cents are 00, 25, 50 or 75.
QuarterBonusIffMultiple ==
    Len(contrib) >= 3 => ((contrib[3] = 25) <=> (receipt.total % 25 = 0))

\* the integer nearest to price/500 (price in cents, so price*0.2 in points),
\* the upper one at a tie
NearestTiesUp(price) ==
    CHOOSE n \in 0..(MaxPrice \div 500 + 1) :
        500 * n - 250 <= price /\ price < 500 * n + 250

SpecifiedItemPoints(it) ==
    IF Len(it.description) % 3 = 0 THEN NearestTiesUp(it.price) ELSE 0

\* the sum over a set of item positions, taken in no particular order
RECURSIVE SumSpecified(_, _)
SumSpecified(items, S) ==
    IF S = {} THEN 0
    ELSE LET i == CHOOSE x \in S : TRUE
         IN  SpecifiedItemPoints(items[i]) + SumSpecified(items, S \ {i})

Reorderings(items) ==
    LET n == Len(items)
    IN  {[i \in 1..n |-> items[f[i]]] :
            f \in {g \in [1..n -> 1..n] : \A i, j \in 1..n : i # j => g[i] # g[j]}}

RoundDollarGetsBoth ==
    Len(contrib) >= 3 =>
        /\ receipt.total % 100 = 0 =>
              contrib[2] = 50 /\ contrib[3] = 25 /\ contrib[2] + contrib[3] = 75
        /\ contrib[2] = 50 => contrib[3] = 25

\* C10 witness: rules 2 and 3 have run on the total 2.00 and added 50 and 25
RoundDollarWitness ==
    /\ Len(contrib) >= 3
    /\ receipt.total = 200
    /\ contrib[2] = 50
    /\ contrib[3] = 25

----------------------------------------------------------------------------
\* Properties of the server (checked under Spec).

\* C1: a Fetch of an identifier that an earlier Submit returned is answered 200
\* with the points calculatePoints gave that Submit's receipt.
FetchReturnsSubmittedScore ==
    (/\ last.handler = "getPoints"
     /\ last.method = "GET"
     /\ Len(last.path) = 2
     /\ last.path[2] = "points"
     /\ last.path[1] \in DOMAIN returned)
    => (last.status = 200 /\ last.points = returned[last.path[1]])

\* C2: Submits under way at the same time hold distinct identifiers, and once
\* no handler is under way the map holds every identifier returned, each with
\* its own score.
ConcurrentSubmitsAllStored ==
    /\ \A h \in DOMAIN handlers :
          h.pc = "assigning" =>
             /\ handlers[h] = 1
             /\ h.id \notin DOMAIN returned
             /\ \A g \in DOMAIN handlers : (g.pc = "assigning" /\ g # h) => g.id # h.id
    /\ (handlers = EmptyMap /\ ~crashed) =>
          \A id \in DOMAIN returned :
              id \in DOMAIN receipts /\ receipts[id] = returned[id]

\* C3: no two handlers are inside a map access at once when one of them writes.
StoreAccessExclusive ==
    ~ \E h \in DOMAIN handlers : h.pc = "assigning" /\ Size(handlers) >= 2

\* C4: an entry of the map stays, with its score, as long as the process lives.
StoreWriteOnce ==
    [][~crashed' =>
          \A id \in DOMAIN receipts :
              id \in DOMAIN receipts' /\ receipts'[id] = receipts[id]]_vars

\* C5: the step in which a Submit is answered adds exactly one entry, the
\* Submit's own, and leaves the others alone; every other step (of a Fetch, of a
\* Submit before its store, an error answer) leaves the map unchanged.
SubmitAddsOneFetchNone ==
    [][~crashed' =>
          /\ returned' # returned =>
                \E id \in DOMAIN returned' \ DOMAIN returned :
                    /\ id \notin DOMAIN receipts
                    /\ receipts' = Put(receipts, id, returned'[id])
          /\ returned' = returned => receipts' = receipts]_vars

\* the path after /receipts/ is exactly {id} and "points"
IdThenPoints(path) == Len(path) = 2 /\ path[2] = "points"

GetAnswerByShape ==
    /\ ~IdThenPoints(last.path) =>
          last.status = 404 /\ last.msg = "Invalid endpoint"
    /\ (IdThenPoints(last.path) /\ ~last.inStore) =>
          last.status = 404 /\ last.msg = "Receipt not found"
    /\ last.status = 200 => (IdThenPoints(last.path) /\ last.inStore)

\* C6 as stated: every GET under /receipts/ is answered by the shape of its path
\* and the presence of its identifier.
GetAnsweredByShape == last.method = "GET" => GetAnswerByShape

\* C6 as amended: so is every GET under /receipts/ except GET /receipts/process,
\* which belongs to the other route and is answered 405 "Invalid method".
GetAnsweredByShapeExceptProcess ==
    last.method = "GET" =>
        IF last.path = <<"process">>
        THEN last.status = 405 /\ last.msg = "Invalid method"
        ELSE GetAnswerByShape

\* C6 witness: a GET whose first segment is a stored identifier but whose shape
\* is wrong has been answered 404 "Invalid endpoint"
GetShapeWitness ==
    /\ last.method = "GET"
    /\ last.handler = "getPoints"
    /\ ~IdThenPoints(last.path)
    /\ last.inStore
    /\ last.status = 404
    /\ last.msg = "Invalid endpoint"

WrongMethod(l) ==
    \/ l.handler = "process" /\ l.method # "POST"
    \/ l.handler = "getPoints" /\ l.method # "GET"

BadBody(l) == l.handler = "process" /\ l.method = "POST" /\ l.body = "malformed"

\* C7: a request with the wrong method is answered 405 whatever its body or
\* path, a POST to /receipts/process with an undecodable body is answered 400,
\* and the step that answers so starts no handler work: no identifier, no
\* score, no change of the map.
ErrorsAreTerminal ==
    [][(last' # last /\ (WrongMethod(last') \/ BadBody(last'))) =>
          /\ WrongMethod(last') => last'.status = 405
          /\ BadBody(last') => last'.status = 400
          /\ UNCHANGED <<receipts, handlers, generated, returned, crashed>>]_vars

\* C7 witness: with an entry stored, a GET /receipts/process carrying a valid
\* receipt has been answered 405
ErrorWitness ==
    /\ last.handler = "process"
    /\ last.method = "GET"
    /\ last.body = "A"
    /\ last.status = 405
    /\ receipts # EmptyMap

====
